---- MODULE Spec2Model ----
(***************************************************************************)
(* The CORS gas of package gases (cors.go): construction of the gas from a *)
(* CORSConfig (CORS, CORSWithConfig) and the handler closure it returns,   *)
(* run against one request/response context at a time.                     *)
(***************************************************************************)
EXTENDS Integers, Sequences, FiniteSets, TLC

VARIABLES
    pc,             \* "start": no gas built yet; "idle": gas built, no request;
                    \* "received": a context awaits the handler; "done": handler returned
    arg,            \* the CORSConfig value the caller passed to CORSWithConfig
    config,         \* the closure's own copy of the config (cors.go:67)
    allowMethods,   \* closure variable, cors.go:78
    allowHeaders,   \* closure variable, cors.go:79
    exposeHeaders,  \* closure variable, cors.go:80
    maxAge,         \* closure variable, cors.go:81
    c0,             \* the context as it entered the handler
    c               \* the context (request, response, and what the handler did)

vars == <<pc, arg, config, allowMethods, allowHeaders, exposeHeaders, maxAge, c0, c>>

---------------------------------------------------------------------------
(* Bounds of the model *)

\* longest AllowOrigins list a caller configures
MaxOrigins == 2

---------------------------------------------------------------------------
(* Names used by the handler *)

HeaderOrigin == "Origin"
HeaderVary == "Vary"
HeaderAccessControlRequestHeaders == "Access-Control-Request-Headers"
HeaderAccessControlAllowOrigin == "Access-Control-Allow-Origin"
HeaderAccessControlAllowMethods == "Access-Control-Allow-Methods"
HeaderAccessControlAllowHeaders == "Access-Control-Allow-Headers"
HeaderAccessControlAllowCredentials == "Access-Control-Allow-Credentials"
HeaderAccessControlExposeHeaders == "Access-Control-Expose-Headers"
HeaderAccessControlMaxAge == "Access-Control-Max-Age"

StatusNoContent == 204

RequestHeaderNames == {HeaderOrigin, HeaderAccessControlRequestHeaders}

ResponseHeaderNames ==
    {HeaderVary, HeaderAccessControlAllowOrigin, HeaderAccessControlAllowMethods,
     HeaderAccessControlAllowHeaders, HeaderAccessControlAllowCredentials,
     HeaderAccessControlExposeHeaders, HeaderAccessControlMaxAge}

---------------------------------------------------------------------------
(* strings.Join and strconv.Itoa *)

RECURSIVE Join(_, _)
Join(elems, sep) ==
    IF Len(elems) = 0 THEN ""
    ELSE IF Len(elems) = 1 THEN elems[1]
    ELSE elems[1] \o sep \o Join(Tail(elems), sep)

Digit(d) ==
    CASE d = 0 -> "0" [] d = 1 -> "1" [] d = 2 -> "2" [] d = 3 -> "3"
      [] d = 4 -> "4" [] d = 5 -> "5" [] d = 6 -> "6" [] d = 7 -> "7"
      [] d = 8 -> "8" [] d = 9 -> "9"

RECURSIVE Itoa(_)
Itoa(n) ==
    IF n < 0 THEN "-" \o Itoa(0 - n)
    ELSE IF n < 10 THEN Digit(n)
    ELSE Itoa(n \div 10) \o Digit(n % 10)

---------------------------------------------------------------------------
(* Request and response headers of the context *)

\* a header is a sequence of values; the empty sequence is an absent header
RequestHeaderGet(h, key) == IF h[key] = <<>> THEN "" ELSE h[key][1]

RequestHeaderContains(h, key) == h[key] # <<>>

\* c.trace records, in order, every response-header call the handler makes
\* and every call of the next handler
ResponseHeaderAdd(ctx, key, value) ==
    [ctx EXCEPT !.resHeader[key] = Append(@, value),
                !.trace = Append(@, <<"Add", key, value>>)]

ResponseHeaderSet(ctx, key, value) ==
    [ctx EXCEPT !.resHeader[key] = <<value>>,
                !.trace = Append(@, <<"Set", key, value>>)]

\* "return next(c)": the next handler of the chain, application code that
\* writes a body and returns result r, which the handler returns in turn
NextHandler(ctx, r) ==
    [ctx EXCEPT !.body = "app",
                !.ret = r,
                !.trace = Append(@, <<"Call", "next", r>>)]

---------------------------------------------------------------------------
(* Skippers *)

DefaultSkipper(ctx) == FALSE

\* a skipper a caller may configure: skip the health-check route
SkipHealth(ctx) == ctx.path = "/health"

SkipperCall(skipper, ctx) ==
    CASE skipper = "defaultSkipper" -> DefaultSkipper(ctx)
      [] skipper = "skipHealth" -> SkipHealth(ctx)

---------------------------------------------------------------------------
(* Configuration *)

DefaultCORSConfig ==
    [Skipper |-> "defaultSkipper",
     AllowOrigins |-> <<"*">>,
     AllowMethods |-> <<"GET", "POST", "PUT", "DELETE">>,
     AllowHeaders |-> <<>>,
     AllowCredentials |-> FALSE,
     ExposeHeaders |-> <<>>,
     MaxAge |-> 0]

OriginA == "https://a.example"
OriginB == "https://b.example"

SeqsUpTo(S, n) == UNION {[1..k -> S] : k \in 0..n}

\* the configurations a caller hands to CORSWithConfig
Configs ==
    [Skipper : {"nil", "defaultSkipper", "skipHealth"},
     AllowOrigins : SeqsUpTo({"*", OriginA, ""}, MaxOrigins),
     AllowMethods : {<<>>, <<"GET", "OPTIONS">>},
     AllowHeaders : {<<>>, <<"X-Foo", "X-Bar">>},
     AllowCredentials : BOOLEAN,
     ExposeHeaders : {<<>>, <<"X-Total", "X-Page">>},
     MaxAge : {0, 600}]

\* WithDefaults without the AllowOrigins default of cors.go:72-74
WithDefaultsKeepEmptyOrigins(cfg) ==
    [cfg EXCEPT
        !.Skipper = IF @ = "nil" THEN DefaultCORSConfig.Skipper ELSE @,
        !.AllowMethods = IF Len(@) = 0 THEN DefaultCORSConfig.AllowMethods ELSE @]

\* cors.go:69-77
WithDefaults(cfg) ==
    [cfg EXCEPT
        !.Skipper = IF @ = "nil" THEN DefaultCORSConfig.Skipper ELSE @,
        !.AllowOrigins = IF Len(@) = 0 THEN DefaultCORSConfig.AllowOrigins ELSE @,
        !.AllowMethods = IF Len(@) = 0 THEN DefaultCORSConfig.AllowMethods ELSE @]

---------------------------------------------------------------------------
(* The handler returned by the gas, cors.go:84-116 *)

\* cors.go:95-101: the first entry that is "*" or equals origin, else ""
RECURSIVE AllowedOriginFrom(_, _, _)
AllowedOriginFrom(allowOrigins, origin, i) ==
    IF i > Len(allowOrigins) THEN ""
    ELSE IF allowOrigins[i] = "*" \/ allowOrigins[i] = origin THEN allowOrigins[i]
    ELSE AllowedOriginFrom(allowOrigins, origin, i + 1)

\* AllowedOrigin without the break of cors.go:99: the last matching entry wins
RECURSIVE AllowedOriginLastFrom(_, _, _, _)
AllowedOriginLastFrom(allowOrigins, origin, i, found) ==
    IF i > Len(allowOrigins) THEN found
    ELSE IF allowOrigins[i] = "*" \/ allowOrigins[i] = origin
         THEN AllowedOriginLastFrom(allowOrigins, origin, i + 1, allowOrigins[i])
         ELSE AllowedOriginLastFrom(allowOrigins, origin, i + 1, found)

AllowedOriginLast(allowOrigins, origin) ==
    AllowedOriginLastFrom(allowOrigins, origin, 1, "")

AllowedOrigin(allowOrigins, origin) == AllowedOriginFrom(allowOrigins, origin, 1)

\* NoCORS without the originSet test of cors.go:92 and 105
NoCORSIgnoringOriginSet(originSet, allowedOrigin) == allowedOrigin = ""

\* cors.go:105: the request goes to the next handler with no further header
NoCORS(originSet, allowedOrigin) == ~originSet \/ allowedOrigin = ""

\* SetAllowCredentials that also writes the header when credentials are off
SetAllowCredentialsAlways(cfg, ctx) ==
    ResponseHeaderSet(ctx, HeaderAccessControlAllowCredentials,
                      IF cfg.AllowCredentials THEN "true" ELSE "false")

\* cors.go:109-111
SetAllowCredentials(cfg, ctx) ==
    IF cfg.AllowCredentials
    THEN ResponseHeaderSet(ctx, HeaderAccessControlAllowCredentials, "true")
    ELSE ctx

\* cors.go:112-114
SetExposeHeaders(expose, ctx) ==
    IF expose # ""
    THEN ResponseHeaderSet(ctx, HeaderAccessControlExposeHeaders, expose)
    ELSE ctx

\* SimpleRequest that answers a request without an allowed origin itself
\* instead of handing it to the next handler
SimpleRequestRejecting(cfg, expose, ctx, originSet, allowedOrigin, r) ==
    IF NoCORS(originSet, allowedOrigin)
    THEN [ctx EXCEPT !.StatusCode = StatusNoContent, !.ret = "nil"]
    ELSE NextHandler(
            SetExposeHeaders(expose,
                SetAllowCredentials(cfg,
                    ResponseHeaderSet(ctx, HeaderAccessControlAllowOrigin, allowedOrigin))),
            r)

\* cors.go:103-115, after the Vary addition
SimpleRequest(cfg, expose, ctx, originSet, allowedOrigin, r) ==
    IF NoCORS(originSet, allowedOrigin)
    THEN NextHandler(ctx, r)
    ELSE NextHandler(
            SetExposeHeaders(expose,
                SetAllowCredentials(cfg,
                    ResponseHeaderSet(ctx, HeaderAccessControlAllowOrigin, allowedOrigin))),
            r)

\* CORSHandler that adds the Vary value before it asks the skipper
CORSHandlerVaryBeforeSkip(cfg, expose, ctx, r) ==
    LET v == ResponseHeaderAdd(ctx, HeaderVary, HeaderOrigin) IN
    IF SkipperCall(cfg.Skipper, ctx)
    THEN NextHandler(v, r)
    ELSE SimpleRequest(cfg, expose, v,
                       RequestHeaderContains(ctx.reqHeader, HeaderOrigin),
                       AllowedOrigin(cfg.AllowOrigins,
                                     RequestHeaderGet(ctx.reqHeader, HeaderOrigin)),
                       r)

\* CORSHandler that adds the Vary value only once an origin is allowed
CORSHandlerVaryOnMatch(cfg, expose, ctx, r) ==
    IF SkipperCall(cfg.Skipper, ctx)
    THEN NextHandler(ctx, r)
    ELSE LET origin == RequestHeaderGet(ctx.reqHeader, HeaderOrigin)
             originSet == RequestHeaderContains(ctx.reqHeader, HeaderOrigin)
             allowedOrigin == AllowedOrigin(cfg.AllowOrigins, origin)
         IN  SimpleRequest(cfg, expose,
                           IF NoCORS(originSet, allowedOrigin) THEN ctx
                           ELSE ResponseHeaderAdd(ctx, HeaderVary, HeaderOrigin),
                           originSet, allowedOrigin, r)

\* cors.go:84-116.  The statements of cors.go:117-141 (headed "Preflight
\* request") follow the unconditional return of line 115 and are never
\* executed; the handler never reads the request's method.
CORSHandler(cfg, expose, ctx, r) ==
    IF SkipperCall(cfg.Skipper, ctx)
    THEN NextHandler(ctx, r)
    ELSE LET origin == RequestHeaderGet(ctx.reqHeader, HeaderOrigin)
             originSet == RequestHeaderContains(ctx.reqHeader, HeaderOrigin)
             allowedOrigin == AllowedOrigin(cfg.AllowOrigins, origin)
         IN  SimpleRequest(cfg, expose,
                           ResponseHeaderAdd(ctx, HeaderVary, HeaderOrigin),
                           originSet, allowedOrigin, r)

---------------------------------------------------------------------------
(* Contexts *)

Methods == {"GET", "OPTIONS"}
Paths == {"/", "/health"}
OriginValues == {<<>>, <<"">>, <<OriginA>>, <<OriginB>>}
RequestHeadersValues == {<<>>, <<"X-Foo">>}
Results == {"nil", "error"}

\* a fresh context for a request; an earlier gas has already added a Vary value
NewContext(method, path, origin, acrh) ==
    [method |-> method,
     path |-> path,
     reqHeader |-> [k \in RequestHeaderNames |->
                        IF k = HeaderOrigin THEN origin ELSE acrh],
     resHeader |-> [k \in ResponseHeaderNames |->
                        IF k = HeaderVary THEN <<"Accept-Encoding">> ELSE <<>>],
     StatusCode |-> 200,
     body |-> "",
     ret |-> "none",
     trace |-> <<>>]

NoContext == NewContext("", "", <<>>, <<>>)

---------------------------------------------------------------------------
(* The state machine *)

Init ==
    /\ pc = "start"
    /\ arg = DefaultCORSConfig
    /\ config = DefaultCORSConfig
    /\ allowMethods = ""
    /\ allowHeaders = ""
    /\ exposeHeaders = ""
    /\ maxAge = ""
    /\ c0 = NoContext
    /\ c = NoContext

\* cors.go:67-83: the defaults and the closure's variables
Build(cfg) ==
    /\ arg' = cfg
    /\ config' = WithDefaults(cfg)
    /\ allowMethods' = Join(WithDefaults(cfg).AllowMethods, ",")
    /\ allowHeaders' = Join(WithDefaults(cfg).AllowHeaders, ",")
    /\ exposeHeaders' = Join(WithDefaults(cfg).ExposeHeaders, ",")
    /\ maxAge' = Itoa(WithDefaults(cfg).MaxAge)

\* cors.go:61-63
CORS ==
    /\ pc = "start"
    /\ pc' = "idle"
    /\ Build(DefaultCORSConfig)
    /\ UNCHANGED <<c0, c>>

\* cors.go:67-83
CORSWithConfig ==
    /\ pc = "start"
    /\ pc' = "idle"
    /\ \E cfg \in Configs : Build(cfg)
    /\ UNCHANGED <<c0, c>>

\* the server hands a new request's context to the chain
Receive ==
    /\ pc = "idle"
    /\ pc' = "received"
    /\ \E method \in Methods, path \in Paths,
          origin \in OriginValues, acrh \in RequestHeadersValues :
            /\ c' = NewContext(method, path, origin, acrh)
            /\ c0' = c'
    /\ UNCHANGED <<arg, config, allowMethods, allowHeaders, exposeHeaders, maxAge>>

\* the handler closure runs on the context, with a next handler returning r
Handle ==
    /\ pc = "received"
    /\ pc' = "done"
    /\ \E r \in Results : c' = CORSHandler(config, exposeHeaders, c, r)
    /\ UNCHANGED <<arg, config, allowMethods, allowHeaders, exposeHeaders, maxAge, c0>>

\* the served context is reset before it is used again
Reset ==
    /\ pc = "done"
    /\ pc' = "idle"
    /\ c' = NoContext
    /\ c0' = NoContext
    /\ UNCHANGED <<arg, config, allowMethods, allowHeaders, exposeHeaders, maxAge>>

Next == CORS \/ CORSWithConfig \/ Receive \/ Handle \/ Reset

Spec == Init /\ [][Next]_vars

---------------------------------------------------------------------------
(* Vocabulary of the properties, read off the state *)

Done == pc = "done"

\* the skip predicate returned true for the request
Skipped == SkipperCall(config.Skipper, c0)

Handled == Done /\ ~Skipped

IsPreflight == c0.method = "OPTIONS"

OriginPresent == c0.reqHeader[HeaderOrigin] # <<>>

OriginValue == IF OriginPresent THEN c0.reqHeader[HeaderOrigin][1] ELSE ""

\* the indexes of the allowOrigins entries that are "*" or byte-equal to the origin
MatchingEntries ==
    {i \in 1..Len(config.AllowOrigins) :
        config.AllowOrigins[i] = "*" \/ config.AllowOrigins[i] = OriginValue}

FirstMatchingEntry ==
    config.AllowOrigins[CHOOSE i \in MatchingEntries : \A j \in MatchingEntries : i <= j]

\* matchedOrigin of the specification: the winning entry, empty for "no match"
MatchedOrigin == IF MatchingEntries = {} THEN "" ELSE FirstMatchingEntry

OriginMatched == OriginPresent /\ MatchedOrigin # ""

\* what the handler did, in order
NextCalls == SelectSeq(c.trace, LAMBDA e : e[1] = "Call")

HeaderCalls == SelectSeq(c.trace, LAMBDA e : e[1] # "Call")

NextInvokedOnceAndReturned ==
    /\ Len(NextCalls) = 1
    /\ c.ret = NextCalls[1][3]
    /\ c.body = "app"

\* the Access-Control-* response headers
AccessControlHeaders == ResponseHeaderNames \ {HeaderVary}

NoAccessControlHeader ==
    /\ \A k \in AccessControlHeaders : c.resHeader[k] = <<>>
    /\ \A i \in 1..Len(c.trace) : c.trace[i][2] \notin AccessControlHeaders

VaryOriginAdded == <<"Add", HeaderVary, "Origin">>

---------------------------------------------------------------------------
(* C1 *)

\* C1: a non-skipped OPTIONS request whose Origin is present and matches an
\* entry of allowOrigins ends with status 204, an empty body, and no call of
\* the next handler.
C1_PreflightTerminatesChain ==
    (Handled /\ IsPreflight /\ OriginMatched) =>
        /\ c.StatusCode = StatusNoContent
        /\ c.body = ""
        /\ Len(NextCalls) = 0

---------------------------------------------------------------------------
(* C2 *)

\* C2: when the skip predicate is true the handler makes no response-header
\* call at all, leaves the status code as it was, calls the next handler
\* exactly once and returns its result, whatever the method and the Origin.
C2_SkipIsPassThrough ==
    (Done /\ Skipped) =>
        /\ HeaderCalls = <<>>
        /\ c.resHeader = c0.resHeader
        /\ c.StatusCode = c0.StatusCode
        /\ NextInvokedOnceAndReturned

C2_Witness ==
    /\ Done /\ Skipped /\ IsPreflight /\ OriginMatched
    /\ c.ret = "error"

---------------------------------------------------------------------------
(* C3 *)

\* C3: every non-skipped run of the handler adds Origin to the response's
\* Vary header, and does so before the next handler is called, whatever the
\* method and whether the Origin is absent, unmatched or matched.
C3_VaryOriginAlwaysAdded ==
    Handled =>
        /\ c.resHeader[HeaderVary] = Append(c0.resHeader[HeaderVary], "Origin")
        /\ \E i \in 1..Len(c.trace) :
              /\ c.trace[i] = VaryOriginAdded
              /\ \A j \in 1..Len(c.trace) : c.trace[j][1] = "Call" => i < j

C3_Witness ==
    /\ Handled /\ IsPreflight
    /\ OriginPresent /\ MatchingEntries = {}
    /\ c.resHeader[HeaderVary] = <<"Accept-Encoding", "Origin">>

---------------------------------------------------------------------------
(* C4 *)

\* C4 as stated: for a non-skipped request with the Origin header present, if
\* some entry of allowOrigins is "*" or byte-equal to the origin value, then
\* Access-Control-Allow-Origin is set to the first such entry.
C4_FirstMatchingEntryIsSet ==
    (Handled /\ OriginPresent /\ MatchingEntries # {}) =>
        c.resHeader[HeaderAccessControlAllowOrigin] = <<FirstMatchingEntry>>

\* C4 as amended: the same, provided the first such entry is not the empty
\* string; when it is the empty string (an empty entry met by a present but
\* empty Origin) no Access-Control-Allow-Origin is set.
C4_FirstNonEmptyMatchingEntryIsSet ==
    (Handled /\ OriginPresent /\ MatchingEntries # {}) =>
        c.resHeader[HeaderAccessControlAllowOrigin] =
            IF FirstMatchingEntry # "" THEN <<FirstMatchingEntry>> ELSE <<>>

C4_Witness ==
    /\ Handled /\ OriginPresent
    /\ config.AllowOrigins = <<OriginA, "*">>
    /\ OriginValue = OriginA
    /\ c.resHeader[HeaderAccessControlAllowOrigin] = <<OriginA>>

---------------------------------------------------------------------------
(* C5 *)

\* C5: a non-skipped non-OPTIONS request whose Origin is absent, or matches
\* no entry of allowOrigins, gets no Access-Control-* header, is not blocked,
\* and reaches the next handler; the Vary addition is the only header call.
C5_SimpleUnmatchedPassesThrough ==
    (Handled /\ ~IsPreflight /\ (~OriginPresent \/ MatchingEntries = {})) =>
        /\ NoAccessControlHeader
        /\ HeaderCalls = <<VaryOriginAdded>>
        /\ c.StatusCode = c0.StatusCode
        /\ NextInvokedOnceAndReturned

C5_Witness ==
    /\ Handled /\ ~IsPreflight /\ ~OriginPresent
    /\ config.AllowOrigins = <<"*">>
    /\ Len(NextCalls) = 1

---------------------------------------------------------------------------
(* C6 *)

---------------------------------------------------------------------------
(* C7 *)

\* C7: with maxAge = 0 no Access-Control-Max-Age is ever emitted; with
\* maxAge = 600 a non-skipped OPTIONS request with a matched origin receives
\* Access-Control-Max-Age "600".
C7_MaxAgeEmittedWhenPositive ==
    Done =>
        /\ config.MaxAge = 0 => c.resHeader[HeaderAccessControlMaxAge] = <<>>
        /\ (config.MaxAge = 600 /\ ~Skipped /\ IsPreflight /\ OriginMatched) =>
                c.resHeader[HeaderAccessControlMaxAge] = <<"600">>

---------------------------------------------------------------------------
(* C8 *)

\* C8: a non-skipped OPTIONS request whose Origin is absent or matches no
\* entry still reaches the next handler, exactly once, with its result
\* returned; the handler sets no status 204 and no Access-Control-* header.
C8_PreflightUnmatchedPassesThrough ==
    (Handled /\ IsPreflight /\ (~OriginPresent \/ MatchingEntries = {})) =>
        /\ NextInvokedOnceAndReturned
        /\ c.StatusCode # StatusNoContent
        /\ c.StatusCode = c0.StatusCode
        /\ NoAccessControlHeader

C8_Witness ==
    /\ Handled /\ IsPreflight
    /\ OriginPresent /\ OriginValue = OriginB /\ MatchingEntries = {}
    /\ Len(NextCalls) = 1 /\ c.ret = "error"

---------------------------------------------------------------------------
(* C9 *)

\* the Access-Control-Allow-Headers value the negotiation of C9 asks for
C9_NegotiatedAllowHeaders ==
    IF config.AllowHeaders # <<>> THEN <<Join(config.AllowHeaders, ",")>>
    ELSE IF RequestHeaderGet(c0.reqHeader, HeaderAccessControlRequestHeaders) # ""
         THEN <<RequestHeaderGet(c0.reqHeader, HeaderAccessControlRequestHeaders)>>
         ELSE <<>>

\* C9: a non-skipped OPTIONS request with a matched origin carries
\* Access-Control-Allow-Methods, the comma-joined allowMethods, and
\* Access-Control-Allow-Headers negotiated as: the comma-joined allowHeaders
\* when non-empty, else the request's Access-Control-Request-Headers when
\* non-empty, else not set.
C9_PreflightMethodsAndHeaders ==
    (Handled /\ IsPreflight /\ OriginMatched) =>
        /\ c.resHeader[HeaderAccessControlAllowMethods] =
                <<Join(config.AllowMethods, ",")>>
        /\ c.resHeader[HeaderAccessControlAllowHeaders] = C9_NegotiatedAllowHeaders

---------------------------------------------------------------------------
(* C10 *)

\* the configuration a built gas must hold for the caller's configuration
C10_Defaulted ==
    /\ config.AllowOrigins =
            IF arg.AllowOrigins = <<>> THEN <<"*">> ELSE arg.AllowOrigins
    /\ config.AllowMethods =
            IF arg.AllowMethods = <<>> THEN <<"GET", "POST", "PUT", "DELETE">>
            ELSE arg.AllowMethods
    /\ Len(config.AllowOrigins) > 0
    /\ Len(config.AllowMethods) > 0
    /\ allowMethods # ""
    /\ config.Skipper # "nil"

\* C10: whatever configuration the gas is built from, its handler runs with
\* a non-empty origin list and a non-empty method list (an empty allowOrigins
\* replaced by ["*"], an empty allowMethods by GET, POST, PUT, DELETE, when
\* the gas is built), and handling requests never changes the configuration.
C10_DefaultsAndReadOnly ==
    /\ [](pc # "start" => C10_Defaulted)
    /\ [][pc # "start" =>
            /\ config' = config
            /\ allowMethods' = allowMethods
            /\ allowHeaders' = allowHeaders
            /\ exposeHeaders' = exposeHeaders
            /\ maxAge' = maxAge]_vars

C10_Witness ==
    /\ Handled /\ OriginPresent
    /\ arg.AllowOrigins = <<>> /\ arg.AllowMethods = <<>> /\ arg.Skipper = "nil"
    /\ c.resHeader[HeaderAccessControlAllowOrigin] = <<"*">>

====
